---- MODULE Spec2Model ----
(***************************************************************************)
(* A model of the in-memory VFS backend (VfsMem, src/backends/memory) and  *)
(* of the handle and capability types it is used through.                  *)
(*                                                                         *)
(* Strings are sequences of one-character strings, so that the code's      *)
(* string operations (contains, trim_matches, split, rsplit_once,          *)
(* starts_with, format!) are computed and not assumed.                     *)
(*                                                                         *)
(* Node timestamps (mtime, SystemTime::now()) are not part of the model:   *)
(* no operation branches on them.                                          *)
(***************************************************************************)
EXTENDS Integers, Sequences, FiniteSets, TLC

(***************************************************************************)
(* Bounds of the model.                                                    *)
(***************************************************************************)
\* handle ids are allocated while next_fid <= MaxFid
MaxFid == 2
\* a file is written while its version is below MaxVersion
MaxVersion == 2
\* a write is taken while the file stays within MaxFileLen bytes
MaxFileLen == 3
\* the strings given to normalize_path alone have at most MaxPathLen characters
MaxPathLen == 4
\* usize and u64 are modelled WordBits wide
WordBits == 4

UsizeMax == 2 ^ WordBits - 1

\* a Vec holds at most isize::MAX bytes
IsizeMax == 2 ^ (WordBits - 1) - 1

(***************************************************************************)
(* String helpers: the std library operations the code calls.              *)
(***************************************************************************)
SLASH == "/"
DOT == "."
ROOT == <<"/">>

\* a mutation: only the string ".." itself counts
ContainsDotDotMutant(s) == s = <<DOT, DOT>>

\* str::contains("..")
ContainsDotDot(s) == \E i \in 1..(Len(s) - 1) : s[i] = DOT /\ s[i + 1] = DOT

\* str::contains('/')
ContainsSlash(s) == \E i \in 1..Len(s) : s[i] = SLASH

\* str::starts_with(prefix)
StartsWith(s, prefix) ==
    /\ Len(prefix) <= Len(s)
    /\ \A i \in 1..Len(prefix) : s[i] = prefix[i]

\* &s[n..] : the string without its first n characters
DropFirst(s, n) == SubSeq(s, n + 1, Len(s))

RECURSIVE TrimStartSlash(_)
TrimStartSlash(s) ==
    IF s # <<>> /\ Head(s) = SLASH THEN TrimStartSlash(Tail(s)) ELSE s

RECURSIVE TrimEndSlash(_)
TrimEndSlash(s) ==
    IF s # <<>> /\ s[Len(s)] = SLASH
    THEN TrimEndSlash(SubSeq(s, 1, Len(s) - 1))
    ELSE s

\* str::trim_matches('/')
TrimMatchesSlash(s) == TrimEndSlash(TrimStartSlash(s))

\* str::split('/') : the sequence of components, empty ones included
RECURSIVE SplitAcc(_, _, _)
SplitAcc(s, cur, acc) ==
    IF s = <<>> THEN Append(acc, cur)
    ELSE IF Head(s) = SLASH THEN SplitAcc(Tail(s), <<>>, Append(acc, cur))
    ELSE SplitAcc(Tail(s), Append(cur, Head(s)), acc)

SplitSlash(s) == SplitAcc(s, <<>>, <<>>)

\* index of the last '/' of s, 0 when there is none
LastSlash(s) ==
    IF ContainsSlash(s)
    THEN CHOOSE i \in 1..Len(s) :
            s[i] = SLASH /\ \A j \in (i + 1)..Len(s) : s[j] # SLASH
    ELSE 0

(***************************************************************************)
(* Results: Ok(val) or Err(kind(text)).  An error carries the path it      *)
(* names (where the code formats one in) and its message.  A panic is the  *)
(* call not returning at all.                                              *)
(***************************************************************************)
NoVal == [none |-> TRUE]

Ok(v) == [ok |-> TRUE, err |-> "", path |-> <<>>, msg |-> "", val |-> v]

Err(kind, p, m) == [ok |-> FALSE, err |-> kind, path |-> p, msg |-> m, val |-> NoVal]

Panic(m) == Err("panic", <<>>, m)

(***************************************************************************)
(* Object kinds and access modes (types.rs).                               *)
(***************************************************************************)
\* impl CanRead for ReadOnly, ReadWrite
CanReadModes == {"ReadOnly", "ReadWrite"}

CanRead(m) == m \in CanReadModes

\* a mutation: every access mode is write-capable
CanWriteMutant(m) == TRUE

\* impl CanWrite for WriteOnly, ReadWrite
CanWrite(m) == m \in {"WriteOnly", "ReadWrite"}

QTDIR == 128
QTFILE == 0

\* Qid::new_file
QidNewFile(qpath, version) == [path |-> qpath, version |-> version,
                               ty |-> QTFILE]

\* Qid::new_dir
QidNewDir(qpath, version) == [path |-> qpath, version |-> version,
                              ty |-> QTDIR]

\* Qid::is_dir : ty & QTDIR != 0
QidIsDir(q) == (q.ty \div QTDIR) % 2 = 1

\* FileHandle::<T, M>::new(fid, qid, path, mode): T and M are the phantom
\* type parameters, part of the handle's type
FileHandleNew(T, M, fid, qid, path, mode) ==
    [path |-> path, T |-> T, M |-> M, fid |-> fid, qid |-> qid, mode |-> mode]

\* a mutation: every type name passes for a file
TypeNameContainsFileMutant(T) == TRUE

\* std::any::type_name::<T>().contains("File") for the types a caller can name
TypeNameContainsFile(T) == T \in {"File", "FileType"}

\* a mutation: every type name passes for a directory
TypeNameContainsDirMutant(T) == TRUE

\* std::any::type_name::<T>().contains("Dir")
TypeNameContainsDir(T) == T \in {"Dir"}

(***************************************************************************)
(* Nodes (node.rs).                                                        *)
(***************************************************************************)
\* Node::new_file
NodeNewFile == [kind |-> "File", version |-> 0, data |-> <<>>]

\* Node::new_dir
NodeNewDir == [kind |-> "Dir", version |-> 0, data |-> <<>>]

NodeIsFile(n) == n.kind = "File"

NodeIsDir(n) == n.kind = "Dir"

\* Node::size
NodeSize(n) == IF n.kind = "File" THEN Len(n.data) ELSE 0

\* Node::version
NodeVersion(n) == IF n.kind = "File" THEN n.version ELSE 0

(***************************************************************************)
(* VfsMem helpers (fs.rs).                                                 *)
(***************************************************************************)
\* a mutation: the slash is put before the untrimmed path
normalize_path_mutant(path) ==
    IF ContainsDotDot(path) THEN Err("InvalidPath", <<>>, ".. traversal not allowed")
    ELSE IF path = <<>> THEN Err("InvalidPath", <<>>, "empty path")
    ELSE IF path = ROOT THEN Ok(ROOT)
    ELSE LET clean == TrimMatchesSlash(path) IN
         IF clean = <<>> THEN Ok(ROOT)
         ELSE IF \E i \in 1..Len(SplitSlash(clean)) : SplitSlash(clean)[i] = <<>>
              THEN Err("InvalidPath", <<>>, "empty path component")
              ELSE Ok(<<SLASH>> \o path)

\* a mutation: a core left empty by the trim is split like any other
normalize_path_strict_mutant(path) ==
    IF ContainsDotDot(path) THEN Err("InvalidPath", <<>>, ".. traversal not allowed")
    ELSE IF path = <<>> THEN Err("InvalidPath", <<>>, "empty path")
    ELSE IF path = ROOT THEN Ok(ROOT)
    ELSE LET clean == TrimMatchesSlash(path) IN
         IF \E i \in 1..Len(SplitSlash(clean)) : SplitSlash(clean)[i] = <<>>
         THEN Err("InvalidPath", <<>>, "empty path component")
         ELSE Ok(<<SLASH>> \o clean)

\* VfsMem::normalize_path
normalize_path(path) ==
    IF ContainsDotDot(path) THEN Err("InvalidPath", <<>>, ".. traversal not allowed")
    ELSE IF path = <<>> THEN Err("InvalidPath", <<>>, "empty path")
    ELSE IF path = ROOT THEN Ok(ROOT)
    ELSE LET clean == TrimMatchesSlash(path) IN
         IF clean = <<>> THEN Ok(ROOT)
         ELSE IF \E i \in 1..Len(SplitSlash(clean)) : SplitSlash(clean)[i] = <<>>
              THEN Err("InvalidPath", <<>>, "empty path component")
              ELSE Ok(<<SLASH>> \o clean)

\* VfsMem::path_to_qid_path : a deterministic hash of the path string.  The
\* hash is kept symbolic: the value is the hashed string itself.
path_to_qid_path(path) == path

\* a mutation: the Qid does not carry the version
NodeQidMutant(path, node) ==
    IF NodeIsFile(node)
    THEN QidNewFile(path_to_qid_path(path), 0)
    ELSE QidNewDir(path_to_qid_path(path), 0)

\* the Qid built from a node in walk, open and node_to_stat
NodeQid(path, node) ==
    IF NodeIsFile(node)
    THEN QidNewFile(path_to_qid_path(path), NodeVersion(node))
    ELSE QidNewDir(path_to_qid_path(path), 0)

\* a mutation: deeper descendants count as children
get_dir_children_deep_mutant(dir_path, nodes_map) ==
    LET prefix == IF dir_path = ROOT THEN ROOT ELSE dir_path \o <<SLASH>> IN
    { DropFirst(p, Len(prefix)) :
        p \in { q \in DOMAIN nodes_map : StartsWith(q, prefix) /\ q # dir_path } }

\* a mutation: every directory looks empty
get_dir_children_mutant(dir_path, nodes_map) == {}

\* VfsMem::get_dir_children : the names of the immediate children.  The code
\* returns them in the map's iteration order; the model keeps the set.
get_dir_children(dir_path, nodes_map) ==
    LET prefix == IF dir_path = ROOT THEN ROOT ELSE dir_path \o <<SLASH>> IN
    { DropFirst(p, Len(prefix)) :
        p \in { q \in DOMAIN nodes_map :
                    /\ StartsWith(q, prefix)
                    /\ q # dir_path
                    /\ ~ContainsSlash(DropFirst(q, Len(prefix))) } }

\* a mutation: the first component instead of the last
LeafNameMutant(path) == LET parts == SplitSlash(path) IN parts[2]

\* path.split('/').last().unwrap_or(path)
LeafName(path) == LET parts == SplitSlash(path) IN parts[Len(parts)]

\* a mutation: every node gets the mode of a file
node_to_stat_mutant(path, node) ==
    [qid |-> NodeQid(path, node), mode |-> 420, name |-> LeafName(path),
     size |-> NodeSize(node), uid |-> "user", gid |-> "group"]

\* VfsMem::node_to_stat
node_to_stat(path, node) ==
    [qid |-> NodeQid(path, node),
     mode |-> IF NodeIsDir(node) THEN 493 ELSE 420, name |-> LeafName(path),
     size |-> NodeSize(node), uid |-> "user", gid |-> "group"]

\* the parent computed in ensure_parent_exists: rsplit_once('/'), "" -> "/"
ParentPath(path) ==
    LET i == LastSlash(path) IN
    IF i = 0 THEN ROOT
    ELSE IF SubSeq(path, 1, i - 1) = <<>> THEN ROOT
    ELSE SubSeq(path, 1, i - 1)

\* a mutation: every parent passes
ensure_parent_exists_mutant(path, nodes_map) == Ok(NoVal)

\* VfsMem::ensure_parent_exists
ensure_parent_exists(path, nodes_map) ==
    IF path = ROOT THEN Ok(NoVal)
    ELSE LET parent == ParentPath(path) IN
         IF parent \in DOMAIN nodes_map
         THEN IF NodeIsDir(nodes_map[parent]) THEN Ok(NoVal)
              ELSE Err("NotADirectory", parent, "")
         ELSE Err("NotFound", parent, "parent directory: ")

(***************************************************************************)
(* The state.                                                              *)
(*   nodes     VfsMem.nodes: the namespace, canonical path -> Node         *)
(*   next_fid  VfsMem.next_fid: the handle counter                         *)
(*   poisoned  the namespace lock is poisoned (a writer panicked)          *)
(*   pc        per caller: idle, or inside create between its insert       *)
(*             (write lock released) and its open                          *)
(*   held      per caller: the handle its last successful open or create   *)
(*             returned (NoHandle before the first)                        *)
(*   stale     per caller: a remove has deleted the path of held since     *)
(*             the handle was returned                                     *)
(*   hist      per path, for the statements about create: the inserts      *)
(*             since the last remove, the handles create returned, and     *)
(*             whether a remove of the path has succeeded                  *)
(*   fids      the handle ids open and create have returned, in the order  *)
(*             of their allocation                                         *)
(*   last      the call that completed last, with its arguments and result *)
(***************************************************************************)
VARIABLES nodes, next_fid, poisoned, pc, held, stale, hist, fids, last

vars == <<nodes, next_fid, poisoned, pc, held, stale, hist, fids, last>>

Procs == {"p1", "p2"}

NoHandle == FileHandleNew("", "", 0, QidNewDir(<<>>, 0), <<>>, 0)

Idle == [path |-> <<>>, T |-> "", M |-> "", mode |-> 0, at |-> "idle",
         arg |-> <<>>, op |-> "none"]

\* what a read records of the call that completed before it, when that was
\* a successful write
NoPrev == [ok |-> FALSE, data |-> <<>>, op |-> "none", h |-> NoHandle,
           off |-> 0]

Prev(call) ==
    IF call.op = "write" /\ call.res.ok
    THEN [ok |-> TRUE, data |-> call.data, op |-> call.op, h |-> call.h,
          off |-> call.off]
    ELSE NoPrev

\* a call: op, its arguments (path, names, T, M, mode for the path calls; h,
\* off, data, count for the handle calls, with where h comes from), the node
\* a write found (old), the call a read follows (after), the namespace the
\* call found (pre) and the handle counter it found (counter), whether an
\* earlier step of the call has inserted a node (inserted), and the result
NoCall ==
    [path |-> <<>>, T |-> "", M |-> "", mode |-> 0, data |-> <<>>,
     op |-> "none", h |-> NoHandle, off |-> 0, res |-> Ok(NoVal),
     names |-> <<>>, from |-> "", count |-> 0, old |-> NodeNewDir,
     after |-> NoPrev, pre |-> [x \in {ROOT} |-> NodeNewDir],
     counter |-> 1, inserted |-> FALSE]

NoHist == [ins |-> 0, wins |-> 0, removed |-> FALSE, writes |-> 0]

\* the history of path p (no entry: nothing has happened at p)
HistOf(p) == IF p \in DOMAIN hist THEN hist[p] ELSE NoHist

\* hist after an insert at p, after create returned a handle for p, after a
\* successful write to p and after a remove of p.  ins counts the inserts at
\* p since the last remove of p; wins counts the handles returned while p has
\* never been removed; writes counts the successful writes to the node now
\* at p.
HistInsert(p) ==
    [x \in DOMAIN hist \cup {p} |->
        IF x = p THEN [HistOf(p) EXCEPT !.ins = HistOf(p).ins + 1, !.writes = 0]
        ELSE hist[x]]

HistWin(p) ==
    IF HistOf(p).removed THEN hist
    ELSE [x \in DOMAIN hist \cup {p} |->
            IF x = p THEN [HistOf(p) EXCEPT !.wins = HistOf(p).wins + 1] ELSE hist[x]]

HistWrite(p) ==
    [x \in DOMAIN hist \cup {p} |->
        IF x = p THEN [HistOf(p) EXCEPT !.writes = HistOf(p).writes + 1]
        ELSE hist[x]]

HistRemove(p) ==
    [x \in DOMAIN hist \cup {p} |->
        IF x = p THEN [NoHist EXCEPT !.removed = TRUE] ELSE hist[x]]

\* f with f[k] set to v, k added to the domain when absent
Put(f, k, v) == [x \in DOMAIN f \cup {k} |-> IF x = k THEN v ELSE f[x]]

\* a mutation: every key that starts with k goes
DelMutant(f, k) == [x \in { y \in DOMAIN f : ~StartsWith(y, k) } |-> f[x]]

\* f without k
Del(f, k) == [x \in DOMAIN f \ {k} |-> f[x]]

\* VfsMem::new
Init ==
    /\ nodes = Put(<<>>, ROOT, NodeNewDir)
    /\ next_fid = 1
    /\ poisoned = FALSE
    /\ pc = [t \in Procs |-> Idle]
    /\ held = [t \in Procs |-> NoHandle]
    /\ stale = [t \in Procs |-> FALSE]
    /\ hist = <<>>
    /\ fids = <<>>
    /\ last = NoCall

\* a call that finds the namespace and the counter as they are now
Call == [NoCall EXCEPT !.pre = nodes, !.counter = next_fid]

\* a call by t returns (or panics) without touching the backend
Returns(call) ==
    /\ last' = call
    /\ UNCHANGED <<nodes, next_fid, fids, poisoned, pc, held, stale, hist>>

(***************************************************************************)
(* The operations of impl VfsBackend for VfsMem.  Every operation but      *)
(* create runs under one acquisition of the namespace lock and is one      *)
(* action.  open takes the counter lock inside its read-locked section;    *)
(* no writer can run in between, so the section is one step.               *)
(***************************************************************************)
\* where the handle of a call comes from: built by its caller, or returned
\* by open or create and then live or stale
HandleFrom(h) ==
    IF \A u \in Procs : held[u] # h THEN "forged"
    ELSE IF \E u \in Procs : held[u] = h /\ stale[u] THEN "stale"
    ELSE "live"

\* self.nodes.read().unwrap() / write().unwrap() on a poisoned lock
LockPanic == Panic("PoisonError")

\* a mutation: the root is joined like any other path
JoinPathMutant(current, name) == current \o <<SLASH>> \o name

\* the next path of a walk step: format!("/{}", name) or format!("{}/{}", ..)
JoinPath(current, name) ==
    IF current = ROOT THEN <<SLASH>> \o name ELSE current \o <<SLASH>> \o name

\* the loop of walk over the names not yet visited
RECURSIVE WalkLoop(_, _, _, _)
WalkLoop(nodes_map, current, names, qids) ==
    IF names = <<>> THEN Ok(qids)
    ELSE LET name == Head(names) IN
         IF ContainsSlash(name) \/ name = <<DOT, DOT>>
         THEN Err("InvalidPath", name, "invalid name: ")
         ELSE LET next == JoinPath(current, name) IN
              IF next \in DOMAIN nodes_map
              THEN WalkLoop(nodes_map, next, Tail(names),
                            Append(qids, NodeQid(next, nodes_map[next])))
              ELSE Ok(qids)

\* VfsMem::walk : its result
walk_result(start, names) ==
    LET n == normalize_path(start) IN
    IF ~n.ok THEN n
    ELSE IF poisoned THEN LockPanic
    ELSE IF n.val \notin DOMAIN nodes THEN Err("NotFound", n.val, "")
    ELSE WalkLoop(nodes, n.val, names, <<>>)

walk(t, start, names) ==
    /\ pc[t].at = "idle"
    /\ Returns([Call EXCEPT !.op = "walk", !.path = start,
                              !.names = names, !.res = walk_result(start, names)])

\* VfsMem::stat : its result
stat_result(path) ==
    LET n == normalize_path(path) IN
    IF ~n.ok THEN n
    ELSE IF poisoned THEN LockPanic
    ELSE IF n.val \notin DOMAIN nodes THEN Err("NotFound", n.val, "")
    ELSE Ok(node_to_stat(n.val, nodes[n.val]))

stat(t, path) ==
    /\ pc[t].at = "idle"
    /\ Returns([Call EXCEPT !.op = "stat", !.path = path,
                              !.res = stat_result(path)])

\* VfsMem::open::<M, T> : its result; the handle takes the id next_fid
open_result(path, mode, T, M) ==
    LET n == normalize_path(path) IN
    IF ~n.ok THEN n
    ELSE IF poisoned THEN LockPanic
    ELSE IF n.val \notin DOMAIN nodes THEN Err("NotFound", n.val, "")
    ELSE LET node == nodes[n.val]
             qid == NodeQid(n.val, node)
             is_valid == IF NodeIsFile(node) THEN TypeNameContainsFile(T)
                         ELSE TypeNameContainsDir(T)
         IN IF ~is_valid
            THEN IF NodeIsFile(node) THEN Err("NotADirectory", n.val, "")
                 ELSE Err("IsADirectory", n.val, "")
            ELSE Ok(FileHandleNew(T, M, next_fid, qid, n.val, mode))

\* a mutation: the id is taken before the checks, so a failing call uses one
OpenEffectMutant(t, res) ==
    /\ next_fid' = next_fid + 1
    /\ IF res.ok
       THEN /\ fids' = Append(fids, res.val.fid)
            /\ held' = [held EXCEPT ![t] = res.val]
            /\ stale' = [stale EXCEPT ![t] = FALSE]
       ELSE UNCHANGED <<fids, held, stale>>

\* the effect of a returning open on the counter and on the caller
OpenEffect(t, res) ==
    IF res.ok
    THEN /\ next_fid' = next_fid + 1
         /\ fids' = Append(fids, res.val.fid)
         /\ held' = [held EXCEPT ![t] = res.val]
         /\ stale' = [stale EXCEPT ![t] = FALSE]
    ELSE UNCHANGED <<next_fid, fids, held, stale>>

open(t, path, mode, T, M) ==
    /\ pc[t].at = "idle"
    /\ LET res == open_result(path, mode, T, M) IN
       /\ res.ok => next_fid <= MaxFid
       /\ OpenEffect(t, res)
       /\ last' = [Call EXCEPT !.op = "open", !.path = path,
                                 !.mode = mode, !.T = T, !.M = M, !.res = res]
    /\ UNCHANGED <<nodes, poisoned, pc, hist>>

\* a mutation: the existence check is missing
create_insert_result_mutant(path, T) ==
    LET n == normalize_path(path) IN
    IF ~n.ok THEN n
    ELSE LET parent == ensure_parent_exists(n.val, nodes) IN
         IF ~parent.ok THEN parent ELSE n

\* VfsMem::create::<M, T>, the block under the write lock: an error, or
\* Ok(the normalized path) with the node inserted
create_insert_result(path, T) ==
    LET n == normalize_path(path) IN
    IF ~n.ok THEN n
    ELSE IF poisoned THEN LockPanic
    ELSE IF n.val \in DOMAIN nodes THEN Err("AlreadyExists", n.val, "")
    ELSE LET parent == ensure_parent_exists(n.val, nodes) IN
         IF ~parent.ok THEN parent
         ELSE IF TypeNameContainsFile(T) \/ TypeNameContainsDir(T) THEN n
         ELSE Err("InvalidArgument", <<>>, "unknown type")

\* the node create inserts for T
CreatedNode(T) == IF TypeNameContainsFile(T) THEN NodeNewFile ELSE NodeNewDir

\* create, from its call to the release of the write lock
create_insert(t, path, mode, T, M) ==
    /\ pc[t].at = "idle"
    /\ LET res == create_insert_result(path, T) IN
       IF res.ok
       THEN /\ nodes' = Put(nodes, res.val, CreatedNode(T))
            /\ pc' = [pc EXCEPT ![t] = [path |-> res.val, T |-> T, M |-> M,
                                        mode |-> mode, at |-> "create_open",
                                        arg |-> path, op |-> "create"]]
            /\ hist' = HistInsert(res.val)
            /\ last' = [Call EXCEPT !.op = "create_insert",
                                      !.path = path, !.mode = mode, !.T = T,
                                      !.M = M, !.res = res]
            /\ UNCHANGED <<next_fid, fids, poisoned, held, stale>>
       ELSE /\ last' = [Call EXCEPT !.op = "create", !.path = path,
                                      !.mode = mode, !.T = T, !.M = M, !.res = res]
            /\ UNCHANGED <<nodes, next_fid, fids, poisoned, pc, held, stale, hist>>

\* create, its tail call self.open::<M, T>(&path, mode)
create_open(t) ==
    /\ pc[t].at = "create_open"
    /\ LET c == pc[t]
           res == open_result(c.path, c.mode, c.T, c.M) IN
       /\ res.ok => next_fid <= MaxFid
       /\ OpenEffect(t, res)
       /\ hist' = IF res.ok THEN HistWin(c.path) ELSE hist
       /\ last' = [Call EXCEPT !.inserted = TRUE, !.op = "create",
                               !.path = c.arg,
                                 !.mode = c.mode, !.T = c.T, !.M = c.M, !.res = res]
    /\ pc' = [pc EXCEPT ![t] = Idle]
    /\ UNCHANGED <<nodes, poisoned>>

\* a mutation: the slice starts at the head of the buffer
read_slice_mutant(file_data, start, count) ==
    SubSeq(file_data, 1, IF count < Len(file_data) THEN count ELSE Len(file_data))

\* the slice data[start..end] of read
read_slice(file_data, start, count) ==
    LET len == Len(file_data)
        end == IF start + count < len THEN start + count ELSE len
    IN SubSeq(file_data, start + 1, end)

\* a mutation: a missing node reads as an empty file
read_result_mutant(h, offset, count) ==
    IF h.path \notin DOMAIN nodes THEN Ok(<<>>)
    ELSE IF NodeIsDir(nodes[h.path]) THEN Err("IsADirectory", h.path, "")
    ELSE Ok(read_slice(nodes[h.path].data, offset, count))

\* VfsMem::read : its result.  start + count beyond usize::MAX panics: on
\* the addition with overflow checks, on the slice (end < start) without.
read_result(h, offset, count) ==
    IF poisoned THEN LockPanic
    ELSE IF h.path \notin DOMAIN nodes THEN Err("NotFound", h.path, "")
    ELSE LET node == nodes[h.path] IN
         IF NodeIsDir(node) THEN Err("IsADirectory", h.path, "")
         ELSE IF offset > Len(node.data) THEN Ok(<<>>)
         ELSE IF offset + count > UsizeMax THEN Panic("overflow")
         ELSE Ok(read_slice(node.data, offset, count))

\* read<M: CanRead>(&FileHandle<File, M>, ..): the bounds are the types
read(t, h, offset, count) ==
    /\ pc[t].at = "idle"
    /\ h.T = "File"
    /\ CanRead(h.M)
    /\ Returns([Call EXCEPT !.op = "read", !.h = h,
                              !.from = HandleFrom(h), !.off = offset,
                              !.count = count, !.after = Prev(last),
                              !.res = read_result(h, offset, count)])

\* file_data.resize(len, 0) when len exceeds the length
ZeroExtend(file_data, len) ==
    IF len > Len(file_data)
    THEN [i \in 1..len |-> IF i <= Len(file_data) THEN file_data[i] ELSE 0]
    ELSE file_data

\* a mutation: the bytes are copied to the start of the buffer
write_splice_mutant(file_data, start, data) ==
    LET ext == ZeroExtend(file_data, start + Len(data)) IN
    [i \in 1..Len(ext) |-> IF i <= Len(data) THEN data[i] ELSE ext[i]]

\* the buffer after the resize and copy_from_slice of write
write_splice(file_data, start, data) ==
    LET ext == ZeroExtend(file_data, start + Len(data)) IN
    [i \in 1..Len(ext) |->
        IF start < i /\ i <= start + Len(data) THEN data[i - start] ELSE ext[i]]

\* a mutation: the version is left alone
bump_version_mutant(version) == version

\* *version += 1
bump_version(version) == version + 1

\* VfsMem::write under the write lock.  A panic inside the locked section
\* (the addition or the slice on overflow, the resize beyond isize::MAX)
\* poisons the lock; without overflow checks the resize to the wrapped
\* length runs before the slice panics.
write(t, h, offset, data) ==
    /\ pc[t].at = "idle"
    /\ h.T = "File"
    /\ CanWrite(h.M)
    /\ LET call == [Call EXCEPT !.op = "write", !.h = h,
                                  !.from = HandleFrom(h),
                                  !.off = offset, !.data = data]
           sum == offset + Len(data)
       IN
       IF poisoned THEN Returns([call EXCEPT !.res = LockPanic])
       ELSE IF h.path \notin DOMAIN nodes
       THEN Returns([call EXCEPT !.res = Err("NotFound", h.path, "")])
       ELSE IF NodeIsDir(nodes[h.path])
       THEN Returns([call EXCEPT !.res = Err("IsADirectory", h.path, "")])
       ELSE LET node == nodes[h.path] IN
            IF sum > UsizeMax
            THEN /\ \E checks \in BOOLEAN :
                      nodes' = IF checks THEN nodes
                               ELSE [nodes EXCEPT ![h.path].data =
                                        ZeroExtend(node.data, sum - (UsizeMax + 1))]
                 /\ poisoned' = TRUE
                 /\ last' = [call EXCEPT !.res = Panic("overflow")]
                 /\ UNCHANGED <<next_fid, fids, pc, held, stale, hist>>
            ELSE IF sum > Len(node.data) /\ sum > IsizeMax
            THEN /\ poisoned' = TRUE
                 /\ last' = [call EXCEPT !.res = Panic("capacity overflow")]
                 /\ UNCHANGED <<nodes, next_fid, fids, pc, held, stale, hist>>
            ELSE /\ sum <= MaxFileLen
                 /\ node.version < MaxVersion
                 /\ nodes' = [nodes EXCEPT
                                ![h.path].data = write_splice(node.data, offset, data),
                                ![h.path].version = bump_version(node.version)]
                 /\ hist' = HistWrite(h.path)
                 /\ last' = [call EXCEPT !.old = node, !.res = Ok(Len(data))]
                 /\ UNCHANGED <<next_fid, fids, poisoned, pc, held, stale>>

\* VfsMem::remove
remove(t, path) ==
    /\ pc[t].at = "idle"
    /\ LET call == [Call EXCEPT !.op = "remove", !.path = path]
           n == normalize_path(path)
       IN
       IF ~n.ok THEN Returns([call EXCEPT !.res = n])
       ELSE IF n.val = ROOT
       THEN Returns([call EXCEPT !.res =
                        Err("PermissionDenied", <<>>, "cannot remove root")])
       ELSE IF poisoned THEN Returns([call EXCEPT !.res = LockPanic])
       ELSE IF /\ n.val \in DOMAIN nodes
               /\ NodeIsDir(nodes[n.val])
               /\ get_dir_children(n.val, nodes) # {}
       THEN Returns([call EXCEPT !.res =
                        Err("InvalidArgument", <<>>, "directory not empty")])
       ELSE IF n.val \notin DOMAIN nodes
       THEN Returns([call EXCEPT !.res = Err("NotFound", n.val, "")])
       ELSE /\ nodes' = Del(nodes, n.val)
            /\ stale' = [u \in Procs |->
                            stale[u] \/ (held[u] # NoHandle /\ held[u].path = n.val)]
            /\ hist' = HistRemove(n.val)
            /\ last' = [call EXCEPT !.res = Ok(NoVal)]
            /\ UNCHANGED <<next_fid, fids, poisoned, pc, held>>

\* a mutation: a handle whose id the counter never gave out is turned away
readdir_result_mutant(h) ==
    IF h.fid \notin 1..(next_fid - 1) \/ h.path \notin DOMAIN nodes
    THEN Err("NotFound", h.path, "")
    ELSE IF NodeIsFile(nodes[h.path]) THEN Err("NotADirectory", h.path, "")
    ELSE Ok({})

\* VfsMem::readdir : its result, the Stats of the children as a set
readdir_result(h) ==
    IF poisoned THEN LockPanic
    ELSE IF h.path \notin DOMAIN nodes THEN Err("NotFound", h.path, "")
    ELSE IF NodeIsFile(nodes[h.path]) THEN Err("NotADirectory", h.path, "")
    ELSE Ok({ node_to_stat(JoinPath(h.path, c), nodes[JoinPath(h.path, c)]) :
                c \in { d \in get_dir_children(h.path, nodes) :
                            JoinPath(h.path, d) \in DOMAIN nodes } })

\* readdir(&FileHandle<Dir, ReadOnly>)
readdir(t, h) ==
    /\ pc[t].at = "idle"
    /\ h.T = "Dir"
    /\ h.M = "ReadOnly"
    /\ Returns([Call EXCEPT !.op = "readdir", !.h = h,
                              !.from = HandleFrom(h),
                              !.res = readdir_result(h)])

(***************************************************************************)
(* The callers.  Paths, names and bytes are drawn from small sets; a       *)
(* handle is one that open or create returned (handles are Clone and may   *)
(* be passed between callers) or one built with FileHandle::new.           *)
(***************************************************************************)
S_a == <<"/", "a">>
S_ab == <<"/", "a", "/", "b">>
S_b == <<"/", "b">>

AccessModes == {"ReadOnly", "WriteOnly", "ReadWrite"}

\* handles built by the caller:
\* FileHandle::<T, M>::new(0, Qid::new_dir(0, 0), path, 0)
Forged(types, access, paths) ==
    { FileHandleNew(T, M, 0, QidNewDir(<<>>, 0), p, 0) :
        T \in types, M \in access, p \in paths }

\* the handles the callers hold
Held == { held[u] : u \in Procs } \ {NoHandle}

\* the handles a caller builds from the fields of one it holds, under other
\* type parameters: FileHandle::<T, M>::new(h.fid, h.qid, h.path.clone(), h.mode)
Retyped(types, access) ==
    { [h EXCEPT !.T = T, !.M = M] : h \in Held, T \in types, M \in access } \ Held

\* one call, or one step of a create, by one of the callers in.procs with
\* arguments from the sets of in; in.forged are handles the callers build,
\* in.retypes the type parameters they rebuild held handles under
NextWith(in) ==
    \E t \in in.procs :
        \/ \E p \in in.paths, ns \in in.names : walk(t, p, ns)
        \/ \E p \in in.paths : stat(t, p)
        \/ \E p \in in.paths, m \in in.modes, T \in in.types, M \in in.access :
                open(t, p, m, T, M)
        \/ \E p \in in.paths, m \in in.modes, T \in in.types, M \in in.access :
                create_insert(t, p, m, T, M)
        \/ create_open(t)
        \/ \E h \in Held \cup in.forged \cup Retyped(in.retypes, in.access),
              o \in in.offsets, c \in in.counts :
                read(t, h, o, c)
        \/ \E h \in Held \cup in.forged \cup Retyped(in.retypes, in.access),
              o \in in.offsets, d \in in.datas :
                write(t, h, o, d)
        \/ \E p \in in.paths : remove(t, p)
        \/ \E h \in Held \cup in.forged \cup Retyped(in.retypes, in.access) :
                readdir(t, h)

(***************************************************************************)
(* Spec: one caller, handles of every access mode, built and retyped       *)
(* handles.                                                                *)
(***************************************************************************)
SpecInputs ==
    [names |-> {<<<<"a">>>>},
     forged |-> Forged({"File", "Dir"}, AccessModes, {S_a}),
     types |-> {"File", "Dir"}, access |-> AccessModes,
     paths |-> {ROOT, S_a, <<"a", "/">>}, procs |-> {"p1"}, modes |-> {420},
     retypes |-> {"File", "Dir"}, offsets |-> {0}, counts |-> {1},
     datas |-> {<<1>>}]

Next == NextWith(SpecInputs)

Spec == Init /\ [][Next]_vars

(***************************************************************************)
(* SpecRace: two callers racing on a path and its child.                   *)
(***************************************************************************)
RaceInputs ==
    [names |-> {<<<<"a">>>>},
     forged |-> Forged({"File"}, {"WriteOnly"}, {S_ab}),
     types |-> {"File", "Dir"}, access |-> {"ReadOnly"}, paths |-> {S_a, S_ab},
     procs |-> Procs, modes |-> {420}, retypes |-> {}, offsets |-> {0},
     counts |-> {1}, datas |-> {<<1>>}]

NextRace == NextWith(RaceInputs)

SpecRace == Init /\ [][NextRace]_vars

(***************************************************************************)
(* SpecBytes: one caller reading and writing two files at several offsets. *)
(***************************************************************************)
BytesInputs ==
    [names |-> {<<<<"a">>>>}, forged |-> Forged({"Dir"}, {"ReadOnly"}, {ROOT}),
     types |-> {"File"}, access |-> {"ReadWrite"}, paths |-> {S_a, S_b},
     procs |-> {"p1"}, modes |-> {420}, retypes |-> {}, offsets |-> {0, 2},
     counts |-> {0, 1}, datas |-> {<<>>, <<1>>, <<2>>}]

NextBytes == NextWith(BytesInputs)

SpecBytes == Init /\ [][NextBytes]_vars

(***************************************************************************)
(* SpecTree: one caller building a small tree: a path given with and       *)
(* without its leading slash, its child, and a sibling it is a prefix of.  *)
(***************************************************************************)
S_rel_a == <<"a">>
S_abx == <<"/", "a", "b">>

\* the handles the caller builds: a directory handle for the root and for
\* /a, a write-only file handle for /a
TreeForged ==
    Forged({"Dir"}, {"ReadOnly"}, {ROOT, S_a})
        \cup Forged({"File"}, {"WriteOnly"}, {S_a})

TreeInputs ==
    [names |-> {<<>>, <<<<>>>>, <<<<"b">>>>, <<<<"a">>, <<"b">>>>},
     forged |-> TreeForged,
     types |-> {"File", "Dir"}, access |-> {"ReadOnly"},
     paths |-> {ROOT, S_a, S_rel_a, S_ab, S_abx}, procs |-> {"p1"},
     modes |-> {420}, retypes |-> {}, offsets |-> {0}, counts |-> {1},
     datas |-> {<<1>>}]

NextTree == NextWith(TreeInputs)

SpecTree == Init /\ [][NextTree]_vars

(***************************************************************************)
(* SpecWords: one caller reading and writing a file with offsets and       *)
(* counts up to the largest machine word.                                  *)
(***************************************************************************)
WordsInputs ==
    [names |-> {<<<<"a">>>>}, forged |-> Forged({"Dir"}, {"ReadOnly"}, {ROOT}),
     types |-> {"File"}, access |-> {"ReadWrite"}, paths |-> {S_a},
     procs |-> {"p1"}, modes |-> {420}, retypes |-> {},
     offsets |-> {0, 1, UsizeMax}, counts |-> {1, UsizeMax},
     datas |-> {<<1>>, <<1, 2>>}]

NextWords == NextWith(WordsInputs)

SpecWords == Init /\ [][NextWords]_vars

(***************************************************************************)
(* SpecArgs: one caller passing paths that hold "..", at the start, as the *)
(* last component and inside a name, and several mode integers.            *)
(***************************************************************************)
S_dd == <<".", ".">>
S_a_dd == <<"/", "a", "/", ".", ".">>
S_adb == <<"a", ".", ".", "b">>

ArgsForged ==
    Forged({"Dir"}, {"ReadOnly"}, {ROOT})
        \cup Forged({"File"}, {"WriteOnly"}, {S_a})

ArgsInputs ==
    [names |-> {<<<<"a">>>>}, forged |-> ArgsForged, types |-> {"File", "Dir"},
     access |-> {"ReadOnly"}, paths |-> {ROOT, S_a, S_dd, S_a_dd, S_adb},
     procs |-> {"p1"}, modes |-> {0, 420, 493}, retypes |-> {},
     offsets |-> {0}, counts |-> {1}, datas |-> {<<1>>}]

NextArgs == NextWith(ArgsInputs)

SpecArgs == Init /\ [][NextArgs]_vars

\* the calls of the backend contract, as last.op names them when they return
BackendOps ==
    {"walk", "stat", "open", "create", "remove", "read", "write", "readdir"}

(***************************************************************************)
(* SpecLocks: the calls of two callers at the grain of the locks.  A call  *)
(* normalizes its path, waits for the namespace lock (shared for walk,     *)
(* stat, open, read and readdir, exclusive for write, remove and create's  *)
(* first block), runs its locked section and releases the lock as it       *)
(* returns.  open takes the counter lock inside its shared section, in     *)
(* next_fid; create waits for the namespace lock a second time, shared,    *)
(* for its tail open.  pc[t].at is where t stands; the locks are held by   *)
(* the callers standing inside the sections.  Arguments are fixed: the     *)
(* path /a, a file, offset 0, one byte.  What a call returns to its caller *)
(* is not kept: last and hist stay as they are.                            *)
(***************************************************************************)
\* the callers holding the namespace lock shared, holding it exclusively,
\* and holding the counter lock
NsReaders == { t \in Procs : pc[t].at \in {"ns_read", "fid_wait", "fid"} }

NsWriters == { t \in Procs : pc[t].at = "ns_write" }

FidHolders == { t \in Procs : pc[t].at = "fid" }

\* the handle passed to read and write: built for /a; the handles the calls
\* return are dropped by their callers
LockHandle ==
    FileHandleNew("File", "ReadWrite", 0, QidNewDir(<<>>, 0), S_a, 0)

\* the handle passed to readdir: built for the root
LockDirHandle == FileHandleNew("Dir", "ReadOnly", 0, QidNewDir(<<>>, 0), ROOT, 0)

\* the calls under way that will take a handle id, and that will write
Opening == { u \in Procs : pc[u].op \in {"open", "create"} }

Writing == { u \in Procs : pc[u].op = "write" }

\* t calls op: the path is normalized, then t waits for the namespace lock
lock_call(t, op) ==
    /\ pc[t].at = "idle"
    /\ op \in {"open", "create"} => next_fid + Cardinality(Opening) <= MaxFid
    /\ op = "write" =>
            (IF S_a \in DOMAIN nodes THEN NodeVersion(nodes[S_a]) ELSE 0)
                + Cardinality(Writing) < MaxVersion
    /\ pc' = [pc EXCEPT ![t] =
                [Idle EXCEPT !.op = op, !.path = normalize_path(S_a).val,
                             !.arg = S_a, !.T = "File", !.M = "ReadWrite",
                             !.mode = 420,
                             !.at = IF op \in {"create", "write", "remove"}
                                    THEN "ns_write_wait" ELSE "ns_read_wait"]]
    /\ UNCHANGED <<nodes, next_fid, fids, poisoned, held, stale, hist, last>>

\* self.nodes.read() : granted while no caller holds the lock exclusively
ns_read_lock(t) ==
    /\ pc[t].at = "ns_read_wait"
    /\ NsWriters = {}
    /\ pc' = [pc EXCEPT ![t].at = "ns_read"]
    /\ UNCHANGED <<nodes, next_fid, fids, poisoned, held, stale, hist, last>>

\* self.nodes.write() : granted while no caller holds the lock
ns_write_lock(t) ==
    /\ pc[t].at = "ns_write_wait"
    /\ NsWriters = {}
    /\ NsReaders = {}
    /\ pc' = [pc EXCEPT ![t].at = "ns_write"]
    /\ UNCHANGED <<nodes, next_fid, fids, poisoned, held, stale, hist, last>>

\* what a section under the shared lock computes
shared_result(t) ==
    CASE pc[t].op = "walk" -> walk_result(ROOT, <<<<"a">>>>)
      [] pc[t].op = "stat" -> stat_result(pc[t].arg)
      [] pc[t].op = "read" -> read_result(LockHandle, 0, 1)
      [] pc[t].op = "readdir" -> readdir_result(LockDirHandle)

\* walk, stat, read, readdir: the section under the shared lock, and return;
\* the section changes nothing, whatever it returns
locked_shared(t) ==
    /\ pc[t].at = "ns_read"
    /\ pc[t].op \in {"walk", "stat", "read", "readdir"}
    /\ shared_result(t).err # "panic"
    /\ pc' = [pc EXCEPT ![t] = Idle]
    /\ UNCHANGED <<nodes, next_fid, fids, poisoned, held, stale, hist, last>>

\* open, and create's tail open: the lookup and the type check under the
\* shared lock; an error returns, otherwise the caller goes on to next_fid
locked_open(t) ==
    /\ pc[t].at = "ns_read"
    /\ pc[t].op \in {"open", "create"}
    /\ LET c == pc[t]
           res == open_result(c.path, c.mode, c.T, c.M) IN
       pc' = [pc EXCEPT ![t] = IF res.ok THEN [c EXCEPT !.at = "fid_wait"]
                                ELSE Idle]
    /\ UNCHANGED <<nodes, next_fid, fids, poisoned, held, stale, hist, last>>

\* fid_lock, but the counter is granted only to a caller that is alone
\* inside the namespace lock
fid_lock_mutant(t) ==
    /\ pc[t].at = "fid_wait"
    /\ FidHolders = {}
    /\ NsReaders = {t}
    /\ pc' = [pc EXCEPT ![t].at = "fid"]
    /\ UNCHANGED <<nodes, next_fid, fids, poisoned, held, stale, hist, last>>

\* self.next_fid.write() inside next_fid, the namespace lock still held
fid_lock(t) ==
    /\ pc[t].at = "fid_wait"
    /\ FidHolders = {}
    /\ pc' = [pc EXCEPT ![t].at = "fid"]
    /\ UNCHANGED <<nodes, next_fid, fids, poisoned, held, stale, hist, last>>

\* next_fid takes the id and releases the counter lock; open builds the
\* handle and returns, releasing the namespace lock
fid_take(t) ==
    /\ pc[t].at = "fid"
    /\ next_fid' = next_fid + 1
    /\ fids' = Append(fids, next_fid)
    /\ pc' = [pc EXCEPT ![t] = Idle]
    /\ UNCHANGED <<nodes, poisoned, held, stale, hist, last>>

\* create: the block under the exclusive lock; after an insert the lock is
\* released and the caller waits for it again, shared, for the tail open
locked_insert(t) ==
    /\ pc[t].at = "ns_write"
    /\ pc[t].op = "create"
    /\ LET c == pc[t]
           res == create_insert_result(c.arg, c.T) IN
       IF res.ok
       THEN /\ nodes' = Put(nodes, res.val, CreatedNode(c.T))
            /\ pc' = [pc EXCEPT ![t].at = "ns_read_wait"]
       ELSE /\ pc' = [pc EXCEPT ![t] = Idle]
            /\ UNCHANGED nodes
    /\ UNCHANGED <<next_fid, fids, poisoned, held, stale, hist, last>>

\* write: the section under the exclusive lock, and return
locked_write(t) ==
    /\ pc[t].at = "ns_write"
    /\ pc[t].op = "write"
    /\ LET h == LockHandle IN
       IF h.path \notin DOMAIN nodes \/ NodeIsDir(nodes[h.path])
       THEN UNCHANGED nodes
       ELSE nodes' = [nodes EXCEPT
                        ![h.path].data =
                            write_splice(nodes[h.path].data, 0, <<1>>),
                        ![h.path].version =
                            bump_version(nodes[h.path].version)]
    /\ pc' = [pc EXCEPT ![t] = Idle]
    /\ UNCHANGED <<next_fid, fids, poisoned, held, stale, hist, last>>

\* remove: the section under the exclusive lock, and return
locked_remove(t) ==
    /\ pc[t].at = "ns_write"
    /\ pc[t].op = "remove"
    /\ LET p == pc[t].path IN
       IF \/ p \notin DOMAIN nodes
          \/ NodeIsDir(nodes[p]) /\ get_dir_children(p, nodes) # {}
       THEN UNCHANGED nodes
       ELSE nodes' = Del(nodes, p)
    /\ pc' = [pc EXCEPT ![t] = Idle]
    /\ UNCHANGED <<next_fid, fids, poisoned, held, stale, hist, last>>

\* the steps of t that wait for nothing
locked_step(t) ==
    \/ locked_shared(t)
    \/ locked_open(t)
    \/ fid_take(t)
    \/ locked_insert(t)
    \/ locked_write(t)
    \/ locked_remove(t)

NextLocks ==
    \E t \in Procs :
        \/ \E op \in BackendOps : lock_call(t, op)
        \/ ns_read_lock(t)
        \/ ns_write_lock(t)
        \/ fid_lock(t)
        \/ locked_step(t)

\* a caller inside a section goes on; a caller waiting for a lock that is
\* free again and again gets it
LocksFair ==
    \A t \in Procs :
        /\ WF_vars(locked_step(t))
        /\ SF_vars(ns_read_lock(t))
        /\ SF_vars(ns_write_lock(t))
        /\ SF_vars(fid_lock(t))

SpecLocks == Init /\ [][NextLocks]_vars /\ LocksFair

(***************************************************************************)
(* SpecNorm: normalize_path alone, applied to every string of up to        *)
(* MaxPathLen characters over '/', '.' and a letter, and applied again to  *)
(* each string it returns.                                                 *)
(***************************************************************************)
PathChars == {SLASH, DOT, "a"}

PathStrings == UNION { [1..n -> PathChars] : n \in 0..MaxPathLen }

\* a backend as constructed, and a string about to be normalized
InitNorm ==
    /\ nodes = Put(<<>>, ROOT, NodeNewDir)
    /\ next_fid = 1
    /\ poisoned = FALSE
    /\ pc = [t \in Procs |-> Idle]
    /\ held = [t \in Procs |-> NoHandle]
    /\ stale = [t \in Procs |-> FALSE]
    /\ hist = <<>>
    /\ fids = <<>>
    /\ last \in { [NoCall EXCEPT !.op = "input", !.path = P] : P \in PathStrings }

\* normalize_path(P) for the string drawn; names keeps P
normalize_input ==
    /\ last.op = "input"
    /\ Returns([NoCall EXCEPT !.op = "normalize", !.path = last.path,
                              !.names = <<last.path>>,
                              !.res = normalize_path(last.path)])

\* normalize_path(P') for the string P' the first call returned
normalize_again ==
    /\ last.op = "normalize"
    /\ last.res.ok
    /\ Returns([NoCall EXCEPT !.op = "renormalize", !.path = last.res.val,
                              !.names = last.names,
                              !.res = normalize_path(last.res.val)])

NextNorm == normalize_input \/ normalize_again

SpecNorm == InitNorm /\ [][NextNorm]_vars

(***************************************************************************)
(* Properties of the backend.                                              *)
(***************************************************************************)
HandleOps == {"read", "write", "readdir"}

\* the node a handle's path names now is of the handle's kind
Resolves(h) == h.path \in DOMAIN nodes /\ nodes[h.path].kind = h.T

\* C1: in every reachable state the root is present and is a directory, so
\* that stat("/") succeeds, and every other path present has its parent
\* path present as a directory.
C1_NamespaceInvariant ==
    /\ ROOT \in DOMAIN nodes
    /\ NodeIsDir(nodes[ROOT])
    /\ stat_result(ROOT).ok
    /\ \A p \in DOMAIN nodes \ {ROOT} :
            /\ ParentPath(p) \in DOMAIN nodes
            /\ NodeIsDir(nodes[ParentPath(p)])

\* a child is present and a remove of its parent has just been refused,
\* while another caller is inside a create
C1_Witness ==
    /\ S_ab \in DOMAIN nodes
    /\ last.op = "remove"
    /\ last.res.err = "InvalidArgument"
    /\ \E t \in Procs : pc[t].at = "create_open"

C3_HeldKindMatchesNode ==
    \A t \in Procs :
        (held[t] # NoHandle /\ held[t].path \in DOMAIN nodes)
            => nodes[held[t].path].kind = held[t].T

\* C3 as amended: when open or create returns a handle of kind K the node
\* at its path is of kind K; a read or write succeeds only on a file and a
\* readdir only on a directory, and a handle whose path now names a node of
\* the other kind gets IsADirectory (read, write) or NotADirectory (readdir).
C3_KindAtReturnAndUse ==
    /\ (last.op \in {"open", "create"} /\ last.res.ok) => Resolves(last.res.val)
    /\ (last.op \in HandleOps /\ last.res.ok) => Resolves(last.h)
    /\ (last.op \in HandleOps /\ last.h.path \in DOMAIN nodes /\ ~Resolves(last.h))
            => last.res.err = (IF last.op = "readdir" THEN "NotADirectory"
                               ELSE "IsADirectory")

\* a File handle returned earlier has been used on a path that now names a
\* directory
C3_Witness ==
    /\ last.op = "read"
    /\ last.from = "stale"
    /\ last.res.err = "IsADirectory"

\* C4 as claimed: read, write and readdir succeed only through a handle that
\* open or create returned.
C4_OnlyReturnedHandlesAccepted ==
    (last.op \in HandleOps /\ last.res.ok) => last.from # "forged"

\* C4 as amended: read, write and readdir look up only the path a handle
\* carries: through a handle its caller built with FileHandle::new they
\* succeed exactly when that path names a node of the handle's kind.
C4_BuiltHandleResolvesByPath ==
    (last.op \in HandleOps /\ last.from = "forged")
        => (last.res.ok <=> Resolves(last.h))

\* a readdir through a handle built with id 0 has succeeded
C4_Witness ==
    /\ last.op = "readdir"
    /\ last.from = "forged"
    /\ last.h.fid = 0
    /\ last.res.ok

\* C5: a read runs only through a File handle of mode ReadOnly or ReadWrite,
\* a write only through a File handle of mode WriteOnly or ReadWrite, a
\* readdir only through a Dir handle of mode ReadOnly.
C5_CapabilityGates ==
    /\ last.op = "read"
            => (last.h.T = "File" /\ last.h.M \in {"ReadOnly", "ReadWrite"})
    /\ last.op = "write"
            => (last.h.T = "File" /\ last.h.M \in {"WriteOnly", "ReadWrite"})
    /\ last.op = "readdir" => (last.h.T = "Dir" /\ last.h.M = "ReadOnly")

\* a write through a WriteOnly handle has succeeded while the caller also
\* held handles of other modes to build from
C5_Witness ==
    /\ last.op = "write"
    /\ last.h.M = "WriteOnly"
    /\ last.res.ok

\* what a create that runs alone can return for path and T: InvalidPath;
\* AlreadyExists(path); NotADirectory(parent) or NotFound(parent), the parent
\* not being the root; InvalidArgument for an unknown T; a handle otherwise
SequentialCreateOutcomes(path, T) ==
    LET n == normalize_path(path) IN
    IF ~n.ok THEN {[ok |-> FALSE, err |-> "InvalidPath", path |-> <<>>]}
    ELSE {[ok |-> FALSE, err |-> "AlreadyExists", path |-> n.val]}
         \cup (IF n.val # ROOT /\ ParentPath(n.val) # ROOT
               THEN {[ok |-> FALSE, err |-> "NotADirectory", path |-> ParentPath(n.val)],
                     [ok |-> FALSE, err |-> "NotFound", path |-> ParentPath(n.val)]}
               ELSE {})
         \cup (IF T \in {"File", "Dir"}
               THEN {[ok |-> TRUE, err |-> "", path |-> <<>>]}
               ELSE {[ok |-> FALSE, err |-> "InvalidArgument", path |-> <<>>]})

\* C6: a create, also one that runs concurrently with remove and create
\* calls on its path, returns only what a create that runs alone can return.
C6_CreateReturnsSequentialOutcome ==
    last.op = "create"
        => [ok |-> last.res.ok, err |-> last.res.err, path |-> last.res.path]
                \in SequentialCreateOutcomes(last.path, last.T)

\* the callers inside create(p) between its insert and its open
Creating(p) == { t \in Procs : pc[t].at = "create_open" /\ pc[t].path = p }

\* C7: at most one create inserts at a path between two removes of it, so no
\* create replaces a node; while the path has never been removed the one
\* create that inserted is the one that returns a handle (it finds its node,
\* of its kind), and every other create of the path fails with AlreadyExists.
C7_CreateAtomicAgainstCreate ==
    /\ \A p \in DOMAIN hist :
        /\ hist[p].ins <= 1
        /\ ~hist[p].removed =>
            /\ hist[p].wins + Cardinality(Creating(p)) = hist[p].ins
            /\ hist[p].ins = 1 => p \in DOMAIN nodes
            /\ \A t \in Creating(p) :
                    nodes[p].kind = CreatedNode(pc[t].T).kind
    /\ (/\ last.op = "create"
        /\ ~last.res.ok
        /\ normalize_path(last.path).ok
        /\ normalize_path(last.path).val \in DOMAIN nodes
        /\ ~HistOf(normalize_path(last.path).val).removed)
            => last.res.err = "AlreadyExists"

\* two creates of one absent path raced: one is past its insert, the other
\* has failed with AlreadyExists
C7_Witness ==
    /\ last.op = "create"
    /\ last.res.err = "AlreadyExists"
    /\ \E t \in Procs :
        /\ pc[t].at = "create_open"
        /\ pc[t].path = last.res.path
        /\ ~HistOf(pc[t].path).removed

\* C8: a read(H, O, len(B)) that directly follows a successful
\* write(H, O, B) through a live ReadWrite File handle H returns exactly B.
C8_RoundTripBytes ==
    (/\ last.op = "read"
     /\ last.after.op = "write"
     /\ last.after.ok
     /\ last.after.h = last.h
     /\ last.from = "live"
     /\ last.h.M = "ReadWrite"
     /\ last.off = last.after.off
     /\ last.count = Len(last.after.data))
        => last.res = Ok(last.after.data)

\* a byte written beyond the old end of the file has been read back
C8_Witness ==
    /\ last.op = "read"
    /\ last.after.op = "write"
    /\ last.after.h = last.h
    /\ last.from = "live"
    /\ last.h.M = "ReadWrite"
    /\ last.off = 2
    /\ last.after.off = 2
    /\ last.after.data = <<2>>
    /\ last.count = 1
    /\ last.res.ok
    /\ last.res.val = <<2>>

\* the content after a write of B at offset O over content C: C zero-padded
\* to max(len(C), O + len(B)), with B at [O, O + len(B))
WrittenContent(C, O, B) ==
    [i \in 1..(IF Len(C) > O + Len(B) THEN Len(C) ELSE O + Len(B)) |->
        IF O < i /\ i <= O + Len(B) THEN B[i - O]
        ELSE IF i <= Len(C) THEN C[i]
        ELSE 0]

\* C9: a successful write(H, O, B) on content C returns len(B) and leaves C
\* zero-padded to max(len(C), O + len(B)) with B at [O, O + len(B)); the other
\* bytes of C are unchanged and the file does not shrink.
C9_WriteZeroExtendsAndSplices ==
    (last.op = "write" /\ last.res.ok)
        => /\ last.res.val = Len(last.data)
           /\ nodes[last.h.path].data
                = WrittenContent(last.old.data, last.off, last.data)
           /\ Len(nodes[last.h.path].data) >= Len(last.old.data)

\* B1 was written at 0 and B2 beyond its end: B1, a zero byte, B2
C9_Witness ==
    /\ last.op = "write"
    /\ last.res.ok
    /\ last.old.data = <<1>>
    /\ last.off = 2
    /\ last.data = <<2>>
    /\ nodes[last.h.path].data = <<1, 0, 2>>

\* the Qid version a stat of p reports
StatVersion(p) == stat_result(p).val.qid.version

\* C10: the version stat reports for a file is the number of successful
\* writes to it since the create that made it: 0 when new, one more after
\* each successful write, also one of no bytes, and changed by nothing else.
C10_VersionCountsWrites ==
    /\ \A p \in DOMAIN nodes :
            NodeIsFile(nodes[p]) => StatVersion(p) = HistOf(p).writes
    /\ (last.op = "write" /\ last.res.ok)
            => StatVersion(last.h.path) = last.old.version + 1
    /\ (last.op = "create" /\ last.res.ok /\ last.T = "File")
            => last.res.val.qid.version = 0

\* a second write, of no bytes, has taken a file to version 2 while another
\* file is present
C10_Witness ==
    /\ last.op = "write"
    /\ last.res.ok
    /\ last.data = <<>>
    /\ StatVersion(last.h.path) = 2
    /\ \E p \in DOMAIN nodes : p # last.h.path /\ NodeIsFile(nodes[p])

\* the callers whose handle carries the Qid the last stat returned
SameQid == { t \in Procs : /\ last.op = "stat"
                           /\ last.res.ok
                           /\ held[t] # NoHandle
                           /\ held[t].qid = last.res.val.qid }

\* C11 as claimed: a Qid that stat returns and an equal Qid that an earlier
\* open or create returned were observed on the same node: the path has not
\* been removed (and created again) between the two.
C11_EqualQidSameNode == \A t \in SameQid : ~stale[t]

\* C11 as amended: equal Qids were observed at the same canonical path, on
\* nodes of the same kind carrying the same version number; when the path
\* has not been removed in between they are one node, which still has the
\* version the earlier Qid carries.  A node removed and created again at
\* the path has the Qid of the old one at version 0.
C11_EqualQidSamePathKindVersion ==
    \A t \in SameQid :
        LET p == normalize_path(last.path).val IN
        /\ held[t].path = p
        /\ held[t].T = nodes[p].kind
        /\ held[t].qid.version = NodeVersion(nodes[p])
        /\ ~stale[t] => HistOf(p).writes = held[t].qid.version

\* stat returns the Qid that a handle opened before a remove and a second
\* create of the path carries
C11_Witness == \E t \in SameQid : stale[t] /\ ~QidIsDir(held[t].qid)

\* the components of a canonical path, and the canonical path of components
Components(p) == IF p = ROOT THEN <<>> ELSE SplitSlash(DropFirst(p, 1))

RECURSIVE PathOfComponents(_)
PathOfComponents(cs) ==
    IF cs = <<>> THEN ROOT
    ELSE IF Len(cs) = 1 THEN <<SLASH>> \o cs[1]
    ELSE PathOfComponents(SubSeq(cs, 1, Len(cs) - 1)) \o <<SLASH>> \o cs[Len(cs)]

\* the parent of a canonical path other than the root: all components but
\* the last
ParentOf(p) == PathOfComponents(SubSeq(Components(p), 1, Len(Components(p)) - 1))

\* the canonical path the last call was given
LastPath == normalize_path(last.path).val

\* what a create of canonical path P finds in namespace ns
CreateCase(P, ns) ==
    IF P \in DOMAIN ns THEN "AlreadyExists"
    ELSE IF ParentOf(P) \notin DOMAIN ns THEN "NotFound"
    ELSE IF NodeIsFile(ns[ParentOf(P)]) THEN "NotADirectory"
    ELSE "insert"

\* C12: with one caller, a create of a valid path P fails with AlreadyExists
\* when the canonical P is present, else with NotADirectory when P's parent
\* is a file, else with NotFound when P's parent is absent, and changes
\* nothing; otherwise its insert adds exactly one empty node of the kind
\* asked for at P, nothing else, and it returns a handle whose path is the
\* canonical P.
C12_CreateSequential ==
    /\ (last.op \in {"create", "create_insert"} /\ normalize_path(last.path).ok)
        => LET case == CreateCase(LastPath, last.pre) IN
           IF last.op = "create_insert"
           THEN /\ case = "insert"
                /\ last.res.ok
                /\ nodes = Put(last.pre, LastPath,
                               IF last.T = "File" THEN NodeNewFile ELSE NodeNewDir)
                /\ DOMAIN nodes = DOMAIN last.pre \cup {LastPath}
                /\ \A t \in Creating(LastPath) :
                        open_result(pc[t].path, pc[t].mode, pc[t].T, pc[t].M).ok
           ELSE IF last.res.ok
           THEN /\ last.res.val.path = LastPath
                /\ last.res.val.T = last.T
                /\ LastPath \in DOMAIN nodes
                /\ nodes[LastPath].kind = last.T
                /\ nodes = last.pre
           ELSE /\ case # "insert"
                /\ last.res.err = case
                /\ nodes = last.pre
    /\ \A t \in Procs : pc[t].at = "create_open" => last.op = "create_insert"

\* a create under a parent that is a file has failed with NotADirectory,
\* naming the parent
C12_Witness ==
    /\ last.op = "create"
    /\ last.path = S_ab
    /\ last.res.err = "NotADirectory"
    /\ last.res.path = S_a
    /\ held["p1"].path = S_a

\* P has a descendant in namespace ns: an entry whose components extend P's
HasDescendant(P, ns) ==
    \E q \in DOMAIN ns :
        /\ Len(Components(q)) > Len(Components(P))
        /\ SubSeq(Components(q), 1, Len(Components(P))) = Components(P)

\* C13: a remove of a valid path P fails with PermissionDenied when P is the
\* root, with InvalidArgument("directory not empty") when P is a directory
\* with a descendant, with NotFound when P is absent, and then changes
\* nothing; otherwise it deletes the entry P and no other, and a stat of P
\* then fails with NotFound.
C13_RemoveCases ==
    (last.op = "remove" /\ normalize_path(last.path).ok)
        => IF LastPath = ROOT
           THEN last.res.err = "PermissionDenied" /\ nodes = last.pre
           ELSE IF /\ LastPath \in DOMAIN last.pre
                   /\ NodeIsDir(last.pre[LastPath])
                   /\ HasDescendant(LastPath, last.pre)
           THEN /\ last.res.err = "InvalidArgument"
                /\ last.res.msg = "directory not empty"
                /\ nodes = last.pre
           ELSE IF LastPath \notin DOMAIN last.pre
           THEN last.res.err = "NotFound" /\ nodes = last.pre
           ELSE /\ last.res.ok
                /\ DOMAIN nodes = DOMAIN last.pre \ {LastPath}
                /\ \A q \in DOMAIN nodes : nodes[q] = last.pre[q]
                /\ stat_result(last.path).err = "NotFound"

\* a file has been removed while a sibling whose path it is a prefix of
\* stays
C13_Witness ==
    /\ last.op = "remove"
    /\ last.res.ok
    /\ LastPath = S_a
    /\ S_abx \in DOMAIN nodes

\* the entries of the namespace whose parent path is D
ChildrenOf(D) == { q \in DOMAIN nodes \ {ROOT} : ParentOf(q) = D }

\* C14: a readdir through a handle on a present directory D returns one Stat
\* for each entry whose parent path is D, the Stat that stat gives for the
\* entry, carrying its last component as name, and nothing else.
C14_ReaddirCompleteness ==
    (/\ last.op = "readdir"
     /\ last.h.path \in DOMAIN nodes
     /\ NodeIsDir(nodes[last.h.path]))
        => /\ last.res.ok
           /\ last.res.val = { stat_result(q).val : q \in ChildrenOf(last.h.path) }
           /\ Cardinality(last.res.val) = Cardinality(ChildrenOf(last.h.path))
           /\ { st.name : st \in last.res.val }
                = { Components(q)[Len(Components(q))] : q \in ChildrenOf(last.h.path) }

\* a readdir of the root has returned the one child while an entry two
\* levels down is present
C14_Witness ==
    /\ last.op = "readdir"
    /\ last.h.path = ROOT
    /\ last.res.ok
    /\ S_ab \in DOMAIN nodes
    /\ { st.name : st \in last.res.val } = {<<"a">>}

\* a readdir of /a has returned nothing while /ab is present
C14_WitnessPrefix ==
    /\ last.op = "readdir"
    /\ last.h.path = S_a
    /\ last.res.ok
    /\ S_abx \in DOMAIN nodes
    /\ last.res.val = {}

\* the path i names below canonical path start
Below(start, names, i) ==
    PathOfComponents(Components(start) \o SubSeq(names, 1, i))

\* how far names can be followed from start: the largest k with every path
\* up to the k-th present
WalkDepth(start, names) ==
    CHOOSE k \in 0..Len(names) :
        /\ \A i \in 1..k : Below(start, names, i) \in DOMAIN nodes
        /\ k < Len(names) => Below(start, names, k + 1) \notin DOMAIN nodes

\* C15: a walk from a valid start with names free of "/" and "..": an
\* absent start gives NotFound; a present start gives, without error, one
\* Qid for each name up to the first whose path is absent, the Qid of the
\* node found there (directory-typed for a directory, file-typed with its
\* version for a file); the namespace is left as found.
C15_WalkPartial ==
    (/\ last.op = "walk"
     /\ normalize_path(last.path).ok
     /\ \A i \in 1..Len(last.names) :
            ~ContainsSlash(last.names[i]) /\ last.names[i] # <<DOT, DOT>>)
        => /\ nodes = last.pre
           /\ IF LastPath \notin DOMAIN nodes
              THEN last.res.err = "NotFound" /\ last.res.path = LastPath
              ELSE LET k == WalkDepth(LastPath, last.names) IN
                   /\ last.res.ok
                   /\ Len(last.res.val) = k
                   /\ \A i \in 1..k :
                        LET q == Below(LastPath, last.names, i) IN
                        /\ QidIsDir(last.res.val[i]) <=> NodeIsDir(nodes[q])
                        /\ last.res.val[i].path = path_to_qid_path(q)
                        /\ last.res.val[i].version = NodeVersion(nodes[q])

\* a walk over two present components has returned two Qids, the second
\* file-typed
C15_Witness ==
    /\ last.op = "walk"
    /\ LastPath = ROOT
    /\ last.res.ok
    /\ Len(last.names) = 2
    /\ Len(last.res.val) = 2
    /\ QidIsDir(last.res.val[1])
    /\ ~QidIsDir(last.res.val[2])

\* a walk has stopped at a missing second component without an error
C15_WitnessShort ==
    /\ last.op = "walk"
    /\ last.res.ok
    /\ Len(last.names) = 2
    /\ Len(last.res.val) = 1

(***************************************************************************)
(* C16: open(P, mode, K) fails with NotFound when the normalized P is       *)
(* absent, with IsADirectory when a directory is found where a File was    *)
(* requested, with NotADirectory when a file is found where a Dir was      *)
(* requested; otherwise it returns a handle carrying the normalized path,  *)
(* the requested mode and the node's current Qid.  In every case the       *)
(* namespace is the one the call found.                                    *)
(***************************************************************************)
C16_OpenCases ==
    (last.op = "open" /\ normalize_path(last.path).ok) =>
        /\ nodes = last.pre
        /\ IF LastPath \notin DOMAIN last.pre
           THEN ~last.res.ok /\ last.res.err = "NotFound"
           ELSE LET node == last.pre[LastPath] IN
                IF NodeIsDir(node) /\ last.T = "File"
                THEN ~last.res.ok /\ last.res.err = "IsADirectory"
                ELSE IF NodeIsFile(node) /\ last.T = "Dir"
                THEN ~last.res.ok /\ last.res.err = "NotADirectory"
                ELSE /\ last.res.ok
                     /\ last.res.val.path = LastPath
                     /\ last.res.val.mode = last.mode
                     /\ last.res.val.qid = NodeQid(LastPath, node)
                     /\ last.res.val.T = last.T
                     /\ last.res.val.M = last.M

\* an open of a directory as a File has failed with IsADirectory
C16_Witness ==
    /\ last.op = "open"
    /\ LastPath \in DOMAIN nodes
    /\ LastPath # ROOT
    /\ NodeIsDir(nodes[LastPath])
    /\ last.T = "File"
    /\ last.res.err = "IsADirectory"

\* an open of a file written to has returned a handle with its version
C16_WitnessHandle ==
    /\ last.op = "open"
    /\ last.res.ok
    /\ last.path # LastPath
    /\ last.res.val.qid.version > 0

\* an open of a file as a Dir has failed with NotADirectory
C16_WitnessNotDir ==
    /\ last.op = "open"
    /\ last.res.err = "NotADirectory"

\* an open of an absent path has failed with NotFound
C16_WitnessAbsent ==
    /\ last.op = "open"
    /\ last.res.err = "NotFound"
    /\ last.path # LastPath

(***************************************************************************)
(* C17: handle ids come from a counter that starts at 1 and only grows:    *)
(* the n-th id returned by a successful open or create, by any caller, is  *)
(* n, so the ids are pairwise distinct; the counter stands one past the    *)
(* number of handles returned, so a failing call has consumed no id.       *)
(***************************************************************************)
C17_FidsSequential ==
    /\ next_fid = Len(fids) + 1
    /\ \A n \in 1..Len(fids) : fids[n] = n
    /\ \A i, j \in 1..Len(fids) : i # j => fids[i] # fids[j]
    /\ \A u, v \in Procs :
            (u # v /\ held[u] # NoHandle /\ held[v] # NoHandle)
                => held[u].fid # held[v].fid
    /\ (last.op \in {"open", "create"} /\ last.res.ok)
            => last.res.val.fid = Len(fids)

\* both callers hold a handle, and the call completed last is an open or a
\* create that failed after them
C17_Witness ==
    /\ Len(fids) = 2
    /\ \A u \in Procs : held[u] # NoHandle
    /\ last.op \in {"open", "create"}
    /\ ~last.res.ok

\* the final component of a canonical path: what follows its last '/'
FinalComponent(P) ==
    CHOOSE c \in { SubSeq(P, i, Len(P)) : i \in 2..(Len(P) + 1) } :
        /\ ~ContainsSlash(c)
        /\ P[Len(P) - Len(c)] = SLASH

(***************************************************************************)
(* C18: stat after create.  When a create of path P, given with or without *)
(* its leading '/', for a file or a directory, has returned a handle, a    *)
(* stat(P) issued next returns a Stat whose name is the final component of *)
(* the normalized P and whose size is 0.                                   *)
(***************************************************************************)
C18_StatAfterCreate ==
    (last.op = "create" /\ last.res.ok) =>
        LET st == stat_result(last.path) IN
        /\ st.ok
        /\ st.val.name = FinalComponent(LastPath)
        /\ st.val.size = 0

\* a file has been created under a path given without its leading '/'
C18_Witness ==
    /\ last.op = "create"
    /\ last.res.ok
    /\ last.path = S_rel_a
    /\ last.T = "File"
    /\ stat_result(last.path).val.name = <<"a">>

\* a directory has been created one level down
C18_WitnessNested ==
    /\ last.op = "create"
    /\ last.res.ok
    /\ last.path = S_ab
    /\ last.T = "Dir"
    /\ stat_result(last.path).val.name = <<"b">>

\* the bytes [offset, min(offset + count, length)) of data, empty when offset
\* is beyond the length
BytesFrom(data, offset, count) ==
    LET len == Len(data)
        stop == IF offset + count < len THEN offset + count ELSE len
    IN IF offset > len THEN <<>>
       ELSE [i \in 1..(stop - offset) |-> data[offset + i]]

(***************************************************************************)
(* C19: read(H, offset, count) through a live File handle never fails:     *)
(* for every offset and count, those near the largest word included, it    *)
(* returns the empty sequence when offset is beyond the file's length and  *)
(* otherwise the bytes [offset, min(offset + count, length)), and leaves   *)
(* the file unchanged.  Stated for calls that find the lock free of        *)
(* poison, so that a failure is the read's own.                            *)
(***************************************************************************)
C19_ReadNeverFails ==
    (/\ last.op = "read"
     /\ last.from = "live"
     /\ ~poisoned
     /\ last.h.path \in DOMAIN last.pre
     /\ NodeIsFile(last.pre[last.h.path])) =>
        /\ last.res.ok
        /\ last.res.val = BytesFrom(last.pre[last.h.path].data, last.off,
                                    last.count)
        /\ nodes = last.pre

(***************************************************************************)
(* C20: normalization idempotence.  For every string P that normalize_path *)
(* accepts with result P', normalize_path(P') succeeds and returns P'.     *)
(***************************************************************************)
C20_NormalizeIdempotent ==
    last.op = "renormalize" => last.res = Ok(last.path)

\* a string that normalization changed has been normalized twice
C20_Witness ==
    /\ last.op = "renormalize"
    /\ last.res.ok
    /\ last.names[1] # last.path
    /\ last.path # ROOT

\* the two-character string ".." occurs somewhere in P
HasDotDot(P) == \E i \in 1..(Len(P) - 1) : SubSeq(P, i, i + 1) = <<".", ".">>

(***************************************************************************)
(* C21: traversal rejection.  Every walk, stat, open, create or remove     *)
(* whose path argument holds the substring ".." anywhere fails with        *)
(* InvalidPath and leaves the namespace and the handle counter as it found *)
(* them.                                                                   *)
(***************************************************************************)
C21_TraversalRejected ==
    (/\ last.op \in {"walk", "stat", "open", "create", "remove"}
     /\ HasDotDot(last.path)) =>
        /\ ~last.res.ok
        /\ last.res.err = "InvalidPath"
        /\ ~last.inserted
        /\ nodes = last.pre
        /\ next_fid = last.counter

\* a create of a name with ".." inside it has been turned away while /a is
\* present
C21_Witness ==
    /\ last.op = "create"
    /\ last.path = S_adb
    /\ last.res.err = "InvalidPath"
    /\ S_a \in DOMAIN nodes

(***************************************************************************)
(* C22: stat of the root returns a Stat whose name is the entire string    *)
(* "/"; for every other present path the name is the final path component. *)
(***************************************************************************)
C22_StatName ==
    (last.op = "stat" /\ last.res.ok) =>
        last.res.val.name =
            IF LastPath = ROOT THEN ROOT ELSE FinalComponent(LastPath)

\* the part of C22 below the root: the name is the final path component
C22_StatNameBelowRoot ==
    (last.op = "stat" /\ last.res.ok /\ LastPath # ROOT) =>
        last.res.val.name = FinalComponent(LastPath)

\* the name stat gives the root: the empty string
C22_RootNameEmpty ==
    (last.op = "stat" /\ last.res.ok /\ LastPath = ROOT) =>
        last.res.val.name = <<>>

(***************************************************************************)
(* C23: the mode integer passed to create is echoed in Stat.  Checked in   *)
(* the state a successful create(P, mode) leaves, where P has not been     *)
(* removed: stat(P).mode equals that mode.                                 *)
(***************************************************************************)
C23_StatEchoesCreateMode ==
    (last.op = "create" /\ last.res.ok) =>
        stat_result(last.path).val.mode = last.mode

\* C23 as the code has it: the mode passed to open or create is carried by
\* the handle returned, and by nothing else; the mode of a Stat is 0o755 for
\* a directory and 0o644 for a file, whatever mode the node was created with.
C23_ModeInHandleStatByKind ==
    /\ (last.op \in {"open", "create"} /\ last.res.ok) =>
            /\ last.res.val.mode = last.mode
            /\ stat_result(last.path).val.mode
                    = IF last.T = "Dir" THEN 493 ELSE 420
    /\ (last.op = "stat" /\ last.res.ok) =>
            last.res.val.mode
                = IF NodeIsDir(nodes[LastPath]) THEN 493 ELSE 420

\* a directory has been created with mode 0 and its Stat has mode 0o755
C23_Witness ==
    /\ last.op = "create"
    /\ last.res.ok
    /\ last.T = "Dir"
    /\ last.mode = 0
    /\ last.res.val.mode = 0
    /\ stat_result(last.path).val.mode = 493

\* P is made of '/' characters only
AllSlashes(P) == \A i \in 1..Len(P) : P[i] = "/"

\* P without its leading and trailing '/' characters
Core(P) ==
    IF AllSlashes(P) THEN <<>>
    ELSE LET first == CHOOSE i \in 1..Len(P) :
                        P[i] # "/" /\ \A j \in 1..(i - 1) : P[j] = "/"
             final == CHOOSE i \in 1..Len(P) :
                        P[i] # "/" /\ \A j \in (i + 1)..Len(P) : P[j] = "/"
         IN SubSeq(P, first, final)

\* two '/' characters stand side by side in c
DoubleSlash(c) == \E i \in 1..(Len(c) - 1) : c[i] = "/" /\ c[i + 1] = "/"

\* c split on '/' has an empty component; the empty string splits into one
\* empty component
HasEmptyComponent(c) ==
    c = <<>> \/ c[1] = "/" \/ c[Len(c)] = "/" \/ DoubleSlash(c)

\* "/" or "/" followed by non-empty components joined by single '/'
Canonical(r) ==
    \/ r = ROOT
    \/ /\ Len(r) >= 2
       /\ r[1] = "/"
       /\ r[Len(r)] # "/"
       /\ ~DoubleSlash(r)

(***************************************************************************)
(* C24: normalize_path fails with InvalidPath for every input other than   *)
(* "/" whose core, after stripping leading and trailing '/', has an empty  *)
(* component when split on '/'; so the only input that canonicalizes to    *)
(* "/" is "/" itself, and every accepted result is "/" or "/" followed by  *)
(* non-empty components joined by single '/' characters.                   *)
(***************************************************************************)
C24_EmptyComponentFails ==
    last.op = "normalize" =>
        /\ (last.path # ROOT /\ HasEmptyComponent(Core(last.path)))
                => (~last.res.ok /\ last.res.err = "InvalidPath")
        /\ (last.res.ok /\ last.res.val = ROOT) => last.path = ROOT
        /\ last.res.ok => Canonical(last.res.val)

\* C24 as the code has it: normalize_path fails with InvalidPath for the
\* empty string, for every input holding "..", and for every input whose
\* core is not empty and has an empty component; every other input is
\* accepted with result "/" followed by its core.  The inputs that
\* canonicalize to "/" are the non-empty strings of '/' characters, and
\* every accepted result is "/" or "/" followed by non-empty components
\* joined by single '/' characters.
C24_EmptyComponentOfCoreFails ==
    last.op = "normalize" =>
        LET P == last.path
            c == Core(last.path)
            rejected == P = <<>> \/ HasDotDot(P) \/ (c # <<>> /\ DoubleSlash(c))
        IN /\ rejected => (~last.res.ok /\ last.res.err = "InvalidPath")
           /\ ~rejected => last.res = Ok(<<"/">> \o c)
           /\ (last.res.ok /\ last.res.val = ROOT) <=> (P # <<>> /\ AllSlashes(P))
           /\ last.res.ok => Canonical(last.res.val)

\* the string "//" has been normalized to the root
C24_Witness ==
    /\ last.op = "normalize"
    /\ last.path = <<"/", "/">>
    /\ last.res = Ok(ROOT)

\* an input with an empty component inside its core has been turned away
C24_WitnessInner ==
    /\ last.op = "normalize"
    /\ last.path = <<"a", "/", "/", "a">>
    /\ last.res.err = "InvalidPath"

(***************************************************************************)
(* C25: a walk, stat, open, create, remove, read, write or readdir call    *)
(* that returns an error has not changed anything, also when other         *)
(* operations run concurrently: no step of it has inserted a node, and the *)
(* namespace and the handle counter are as its returning step found them.  *)
(***************************************************************************)
C25_ErrorChangesNothing ==
    (last.op \in BackendOps /\ ~last.res.ok /\ last.res.err # "panic") =>
        /\ ~last.inserted
        /\ nodes = last.pre
        /\ next_fid = last.counter

\* the part of C25 that holds: a call that returns an error without having
\* inserted a node leaves the namespace and the counter as it found them
C25_ErrorBeforeInsertChangesNothing ==
    (/\ last.op \in BackendOps
     /\ ~last.res.ok
     /\ last.res.err # "panic"
     /\ ~last.inserted) =>
        /\ nodes = last.pre
        /\ next_fid = last.counter

\* a reachable state: a create of /a has returned NotFound after its insert
\* let the other caller create /a/b and take the only handle id given out
C25_FailedCreateLeftTrace ==
    /\ last.op = "create"
    /\ last.res.err = "NotFound"
    /\ last.inserted
    /\ LastPath = S_a
    /\ fids = <<1>>
    /\ \E u \in Procs : held[u].path = S_ab /\ held[u].fid = 1

(***************************************************************************)
(* C26: every Qid returned by walk belongs to a node strictly below start: *)
(* for every present start and every list of names, the i-th Qid of the    *)
(* result is that of a node i levels deeper than start, so a walk that     *)
(* returns k Qids ends k levels below start, and no Qid of the result is   *)
(* the Qid of start itself.                                                *)
(***************************************************************************)
C26_WalkStrictlyBelow ==
    (last.op = "walk" /\ last.res.ok) =>
        \A i \in 1..Len(last.res.val) :
            /\ Len(Components(last.res.val[i].path))
                    = Len(Components(LastPath)) + i
            /\ last.res.val[i] # NodeQid(LastPath, nodes[LastPath])

\* the part of C26 that holds: when no name of the list is empty
C26_WalkStrictlyBelowNamed ==
    (/\ last.op = "walk"
     /\ last.res.ok
     /\ \A j \in 1..Len(last.names) : last.names[j] # <<>>) =>
        \A i \in 1..Len(last.res.val) :
            /\ Len(Components(last.res.val[i].path))
                    = Len(Components(LastPath)) + i
            /\ last.res.val[i] # NodeQid(LastPath, nodes[LastPath])

\* a reachable state: a walk from the root over one empty name has returned
\* the Qid of the root
C26_WalkReturnedStart ==
    /\ last.op = "walk"
    /\ LastPath = ROOT
    /\ last.names = <<<<>>>>
    /\ last.res = Ok(<<NodeQid(ROOT, nodes[ROOT])>>)

(***************************************************************************)
(* C27: no deadlock.  Under fair scheduling of the namespace lock and of   *)
(* the counter lock, every operation a caller has invoked eventually       *)
(* returns, whatever the two callers mix of open, create, write, remove,   *)
(* read, readdir, walk and stat; and no caller ever waits for the          *)
(* namespace lock while it holds the counter lock: the counter lock is     *)
(* held only inside the shared namespace lock, by one caller at a time,    *)
(* and an exclusive holder of the namespace lock is alone in it.           *)
(***************************************************************************)
NsWaiting == { t \in Procs : pc[t].at \in {"ns_read_wait", "ns_write_wait"} }

LockOrder ==
    /\ FidHolders \cap NsWaiting = {}
    /\ FidHolders \subseteq NsReaders
    /\ Cardinality(FidHolders) <= 1
    /\ Cardinality(NsWriters) <= 1
    /\ NsWriters # {} => NsReaders = {}

====
